---------------------------- MODULE Spec2Model ----------------------------
(***************************************************************************)
(* A model of py-twemredis (twemredis.py): the client-side sharding router *)
(* for a twemproxy-partitioned Redis cluster.                              *)
(*                                                                         *)
(* Strings are sequences of one-character strings, so that the regular     *)
(* expression of _get_key_id_from_key, the decimal formatting of str(k)    *)
(* and the byte encoding hashed by md5 are computed, not assumed.          *)
(* A 32-bit word is a pair <<hi, lo>> of 16-bit halves (hi*2^16 + lo).     *)
(***************************************************************************)
EXTENDS Integers, Sequences, FiniteSets, TLC

(***************************************************************************)
(* Bounds of the model.                                                    *)
(***************************************************************************)
\* num_shards ranges over 1..MaxShards where only routing is exercised
MaxShards == 10
\* num_shards ranges over 1..MaxCluster where the shards hold data
MaxCluster == 2
\* keys and key ids given to the routing functions have at most this length
MaxKeyLen == 3
\* key types given to get_canonical_key have at most this length
MaxTypeLen == 1

(***************************************************************************)
(* Characters and their byte codes (str -> bytes, Python 2 str).           *)
(***************************************************************************)
Digits == <<"0", "1", "2", "3", "4", "5", "6", "7", "8", "9">>

HexDigits == Digits \o <<"a", "b", "c", "d", "e", "f">>

Ord(c) ==
  CASE c = "0" -> 48 [] c = "1" -> 49 [] c = "2" -> 50 [] c = "3" -> 51
    [] c = "4" -> 52 [] c = "5" -> 53 [] c = "6" -> 54 [] c = "7" -> 55
    [] c = "8" -> 56 [] c = "9" -> 57 [] c = ":" -> 58
    [] c = "a" -> 97 [] c = "b" -> 98 [] c = "c" -> 99 [] c = "d" -> 100
    [] c = "e" -> 101 [] c = "f" -> 102 [] c = "k" -> 107 [] c = "t" -> 116
    [] c = "{" -> 123 [] c = "|" -> 124 [] c = "}" -> 125

Bytes(s) == [i \in 1..Len(s) |-> Ord(s[i])]

(***************************************************************************)
(* hashlib.md5: RFC 1321 on 32-bit words kept as 16-bit halves.            *)
(***************************************************************************)
Half == 2^16

Pow2(n) == 2^n

Add32(a, b) ==
  LET lo == a[2] + b[2]
      hi == a[1] + b[1] + (lo \div Half)
  IN  <<hi % Half, lo % Half>>

\* rotate a 16-bit-halved word left by s, 0 < s < 32
RotL32(x, s) ==
  LET y == IF s >= 16 THEN <<x[2], x[1]>> ELSE x
      r == IF s >= 16 THEN s - 16 ELSE s
  IN  IF r = 0 THEN y
      ELSE <<((y[1] * Pow2(r)) % Half) + (y[2] \div Pow2(16 - r)),
             ((y[2] * Pow2(r)) % Half) + (y[1] \div Pow2(16 - r))>>

\* the four round functions on single bits
MD5Bit(round, b, c, d) ==
  CASE round = 0 -> IF b = 1 THEN c ELSE d             \* (b & c) | (~b & d)
    [] round = 1 -> IF d = 1 THEN b ELSE c             \* (b & d) | (c & ~d)
    [] round = 2 -> (b + c + d) % 2                    \* b ^ c ^ d
    [] round = 3 -> (c + (IF b = 1 \/ d = 0 THEN 1 ELSE 0)) % 2  \* c ^ (b | ~d)

\* a round function on n-bit values, bit by bit
RECURSIVE MD5MixBits(_, _, _, _, _)
MD5MixBits(round, b, c, d, n) ==
  IF n = 0 THEN 0
  ELSE MD5Bit(round, b % 2, c % 2, d % 2)
       + (2 * MD5MixBits(round, b \div 2, c \div 2, d \div 2, n - 1))

\* the round functions on 4-bit values, tabulated once
MD5Nibbles ==
  [round \in 0..3 |-> [b \in 0..15 |-> [c \in 0..15 |-> [d \in 0..15 |->
     MD5MixBits(round, b, c, d, 4)]]]]

\* a round function on a 16-bit half: four nibbles
MD5Mix16(round, b, c, d) ==
  LET t == MD5Nibbles[round]
  IN  t[b % 16][c % 16][d % 16]
      + (16 * t[(b \div 16) % 16][(c \div 16) % 16][(d \div 16) % 16])
      + (256 * t[(b \div 256) % 16][(c \div 256) % 16][(d \div 256) % 16])
      + (4096 * t[b \div 4096][c \div 4096][d \div 4096])

MD5Mix(round, b, c, d) ==
  <<MD5Mix16(round, b[1], c[1], d[1]), MD5Mix16(round, b[2], c[2], d[2])>>

MD5K == <<
    <<55146, 42104>>, <<59591, 46934>>, <<9248, 28891>>, <<49597, 52974>>,
    <<62844, 4015>>, <<18311, 50730>>, <<43056, 17939>>, <<64838, 38145>>,
    <<27008, 39128>>, <<35652, 63407>>, <<65535, 23473>>, <<35164, 55230>>,
    <<27536, 4386>>, <<64920, 29075>>, <<42617, 17294>>, <<18868, 2081>>,
    <<63006, 9570>>, <<49216, 45888>>, <<9822, 23121>>, <<59830, 51114>>,
    <<54831, 4189>>, <<580, 5203>>, <<55457, 59009>>, <<59347, 64456>>,
    <<8673, 52710>>, <<49975, 2006>>, <<62677, 3463>>, <<17754, 5357>>,
    <<43491, 59653>>, <<64751, 41976>>, <<26479, 729>>, <<36138, 19594>>,
    <<65530, 14658>>, <<34673, 63105>>, <<28061, 24866>>, <<64997, 14348>>,
    <<42174, 59972>>, <<19422, 53161>>, <<63163, 19296>>, <<48831, 48240>>,
    <<10395, 32454>>, <<60065, 10234>>, <<54511, 12421>>, <<1160, 7429>>,
    <<55764, 53305>>, <<59099, 39397>>, <<8098, 31992>>, <<50348, 22117>>,
    <<62505, 8772>>, <<17194, 65431>>, <<43924, 9127>>, <<64659, 41017>>,
    <<25947, 22979>>, <<36620, 52370>>, <<65519, 62589>>, <<34180, 24017>>,
    <<28584, 32335>>, <<65068, 59104>>, <<41729, 17172>>, <<19976, 4513>>,
    <<63315, 32386>>, <<48442, 62005>>, <<10967, 53947>>, <<60294, 54161>> >>

MD5S == <<
    7, 12, 17, 22, 7, 12, 17, 22, 7, 12, 17, 22, 7, 12, 17, 22,
    5, 9, 14, 20, 5, 9, 14, 20, 5, 9, 14, 20, 5, 9, 14, 20,
    4, 11, 16, 23, 4, 11, 16, 23, 4, 11, 16, 23, 4, 11, 16, 23,
    6, 10, 15, 21, 6, 10, 15, 21, 6, 10, 15, 21, 6, 10, 15, 21 >>

MD5Init == << <<26437, 8961>>, <<61389, 43913>>, <<39098, 56574>>, <<4146, 21622>> >>

\* index of the message word used in step i (0-based)
MD5G(i) ==
  CASE i \div 16 = 0 -> i
    [] i \div 16 = 1 -> ((5 * i) + 1) % 16
    [] i \div 16 = 2 -> ((3 * i) + 5) % 16
    [] i \div 16 = 3 -> (7 * i) % 16

\* the message bytes, 0x80, zeros up to 56 mod 64, the bit length in 8 bytes LE
MD5Pad(bytes) ==
  LET n == Len(bytes)
      total == (((n + 8) \div 64) + 1) * 64
      bits == 8 * n
  IN  [i \in 1..total |->
         IF i <= n THEN bytes[i]
         ELSE IF i = n + 1 THEN 128
         ELSE IF i = total - 7 THEN bits % 256
         ELSE IF i = total - 6 THEN (bits \div 256) % 256
         ELSE IF i = total - 5 THEN (bits \div Half) % 256
         ELSE 0]

\* word j (0-based) of block blk (0-based) of the padded message, little-endian
MD5Word(p, blk, j) ==
  LET o == (64 * blk) + (4 * j)
  IN  <<p[o + 3] + (256 * p[o + 4]), p[o + 1] + (256 * p[o + 2])>>

\* One step of the compression function.
MD5Step(st, p, blk, i) ==
  LET f == Add32(Add32(MD5Mix(i \div 16, st[2], st[3], st[4]), st[1]),
                 Add32(MD5K[i + 1], MD5Word(p, blk, MD5G(i))))
  IN  <<st[4], Add32(st[2], RotL32(f, MD5S[i + 1])), st[2], st[3]>>

\* Steps lo..hi-1 of one block: the first half, then the second half on its
\* result.  TLC passes arguments unevaluated: the test in MD5StepsFrom has the
\* intermediate state computed before the second half starts.
RECURSIVE MD5Steps(_, _, _, _, _), MD5StepsFrom(_, _, _, _, _)
MD5Steps(st, p, blk, lo, hi) ==
  IF hi = lo + 1 THEN MD5Step(st, p, blk, lo)
  ELSE MD5StepsFrom(MD5Steps(st, p, blk, lo, (lo + hi) \div 2),
                    p, blk, (lo + hi) \div 2, hi)

MD5StepsFrom(st, p, blk, lo, hi) ==
  IF st = <<>> THEN st ELSE MD5Steps(st, p, blk, lo, hi)

\* the state after a block: the state before it plus the result of its steps
MD5AddState(st, r) ==
  <<Add32(st[1], r[1]), Add32(st[2], r[2]), Add32(st[3], r[3]), Add32(st[4], r[4])>>

RECURSIVE MD5Blocks(_, _, _)
MD5Blocks(st, p, blk) ==
  IF 64 * blk >= Len(p) THEN st
  ELSE MD5Blocks(MD5AddState(st, MD5Steps(st, p, blk, 0, 64)), p, blk + 1)

\* byte k (0 the lowest) of a 32-bit word
MD5WordByte(w, k) ==
  CASE k = 0 -> w[2] % 256
    [] k = 1 -> w[2] \div 256
    [] k = 2 -> w[1] % 256
    [] k = 3 -> w[1] \div 256

\* the 16 bytes of the final state: the four words, each little-endian
MD5StateBytes(st) ==
  [i \in 1..16 |-> MD5WordByte(st[((i - 1) \div 4) + 1], (i - 1) % 4)]

MD5Digest(s) == MD5StateBytes(MD5Blocks(MD5Init, MD5Pad(Bytes(s)), 0))

(***************************************************************************)
(* Inputs.                                                                 *)
(***************************************************************************)
KeyChars == {"0", "1", "{", "}", ":"}

RECURSIVE StringsUpTo(_)
StringsUpTo(n) ==
  IF n = 0 THEN {<<>>}
  ELSE LET shorter == StringsUpTo(n - 1)
       IN  shorter \cup {Append(w, c) : w \in shorter, c \in KeyChars}

\* hash_tag of the configuration: the usual "{}", a degenerate tag whose start
\* and stop are equal, and a tag made of digits
HashTags == {<<"{", "}">>, <<":", ":">>, <<"1", "0">>}

\* str(k) of a non-negative integer
RECURSIVE str_int(_)
str_int(k) ==
  IF k < 10 THEN <<Digits[k + 1]>>
  ELSE Append(str_int(k \div 10), Digits[(k % 10) + 1])

\* The digests of the identifiers the model hashes most, computed once.
MD5Cache ==
  [w \in StringsUpTo(MaxKeyLen) \cup {str_int(k) : k \in 1..(MaxShards * MaxShards)}
     |-> MD5Digest(w)]

\* hashlib.md5(s).hexdigest(): two lowercase hex digits per digest byte
HexOfBytes(d) ==
  [i \in 1..(2 * Len(d)) |->
     HexDigits[(IF i % 2 = 1 THEN d[(i + 1) \div 2] \div 16
                             ELSE d[(i + 1) \div 2] % 16) + 1]]

\* hashlib.md5(s).digest()
digest(w) == IF w \in DOMAIN MD5Cache THEN MD5Cache[w] ELSE MD5Digest(w)

hexdigest(w) == HexOfBytes(digest(w))

(***************************************************************************)
(* State.                                                                  *)
(*   num_shards, hash_tag   the configuration (_load_config)               *)
(*   canonical_keys         self._canonical_keys, computed by __init__     *)
(*   shards                 self._shards: per shard index, the contents of *)
(*                          the Redis instance behind that shard's handle  *)
(*   call, ret, log         the last call made on the router, its outcome, *)
(*                          and the commands it executed on shard handles  *)
(*   last_set               per key, the value of the most recent set made *)
(*                          through the router                             *)
(***************************************************************************)
VARIABLES num_shards, hash_tag, canonical_keys, shards, call, ret, log, last_set

vars == <<num_shards, hash_tag, canonical_keys, shards, call, ret, log, last_set>>

\* Outcomes of a call: a returned value or a raised exception.
Return(v) == [kind |-> "return", val |-> v]

Raise(e) == [kind |-> "raise", exc |-> e]

\* Python values that cross the router's interface, tagged by type.
PyStr(w) == <<"str", w>>

PyInt(n) == <<"int", n>>

PyDict(m) == <<"dict", m>>

PyList(q) == <<"list", q>>

PyNone == <<"None">>

PyTrue == <<"bool", TRUE>>

hash_start == hash_tag[1]

hash_stop == hash_tag[2]

(***************************************************************************)
(* KeyCodec: get_key and _get_key_id_from_key.                             *)
(***************************************************************************)
get_key_untagged(key_type, key_id) == key_type \o <<":">> \o key_id

get_key(key_type, key_id) ==
  key_type \o <<":", hash_start>> \o key_id \o <<hash_stop>>

\* Where the greedy class [^stop]* started after position i ends: the last
\* index of the run of non-stop characters that follows i.
ClassRunEnd(w, i) ==
  LET stops == {j \in (i + 1)..Len(w) : w[j] = hash_stop}
  IN  IF stops = {} THEN Len(w)
      ELSE (CHOOSE j \in stops : \A j2 \in stops : j <= j2) - 1

\* The regular expression start([^stop]*)stop matches at i: start at i, the
\* class takes the whole run (giving back characters cannot help, none of them
\* is a stop), and a stop follows.
MatchesAt(w, i) == w[i] = hash_start /\ ClassRunEnd(w, i) < Len(w)

\* re.search: the leftmost position with a match, 0 for None
re_search(w) ==
  LET ms == {i \in 1..Len(w) : MatchesAt(w, i)}
  IN  IF ms = {} THEN 0 ELSE CHOOSE i \in ms : \A i2 \in ms : i <= i2

get_key_id_from_key_anchored(w) ==
  IF Len(w) > 0 /\ MatchesAt(w, 1) THEN SubSeq(w, 2, ClassRunEnd(w, 1)) ELSE w

get_key_id_from_key(w) ==
  LET m == re_search(w)
  IN  IF m # 0 THEN SubSeq(w, m + 1, ClassRunEnd(w, m)) ELSE w

(***************************************************************************)
(* HashRouter: get_shard_num_by_key_id.  Python integers are unbounded; a  *)
(* value below 2^32 is kept as <<hi, lo>>, two 16-bit halves.              *)
(***************************************************************************)
HexValue(c) == (CHOOSE i \in 1..16 : HexDigits[i] = c) - 1

\* int(s, 16) of a two-digit string
int16(w) == (16 * HexValue(w[1])) + HexValue(w[2])

\* v << n for v < 2^8 and n in {0, 8, 16, 24}
ShiftLeft(v, n) ==
  IF n >= 16 THEN <<v * Pow2(n - 16), 0>> ELSE <<0, v * Pow2(n)>>

RECURSIVE BitOrBits(_, _, _)
BitOrBits(a, b, n) ==
  IF n = 0 THEN 0
  ELSE (IF a % 2 = 1 \/ b % 2 = 1 THEN 1 ELSE 0)
       + (2 * BitOrBits(a \div 2, b \div 2, n - 1))

\* a | b
BitOr(a, b) == <<BitOrBits(a[1], b[1], 16), BitOrBits(a[2], b[2], 16)>>

\* val % n without leaving the 32-bit integers of the checker
WideMod(a, n) == (((a[1] % n) * (Half % n)) + (a[2] % n)) % n

\* val: the four two-digit groups at offsets o1..o4 of the hex digest m,
\* or-ed together after shifts by 0, 8, 16 and 24 bits
ShardVal(m, o1, o2, o3, o4) ==
  BitOr(BitOr(BitOr(ShiftLeft(int16(SubSeq(m, o1, o1 + 1)), 0),
                    ShiftLeft(int16(SubSeq(m, o2, o2 + 1)), 8)),
              ShiftLeft(int16(SubSeq(m, o3, o3 + 1)), 16)),
        ShiftLeft(int16(SubSeq(m, o4, o4 + 1)), 24))

get_shard_num_by_key_id_bigendian(key_id) ==
  WideMod(ShardVal(hexdigest(key_id), 7, 5, 3, 1), num_shards)

\* val for the identifiers the model routes most, computed once
ShardValCache == [w \in DOMAIN MD5Cache |-> ShardVal(HexOfBytes(MD5Cache[w]), 1, 3, 5, 7)]

shard_val(key_id) ==
  IF key_id \in DOMAIN ShardValCache THEN ShardValCache[key_id]
  ELSE ShardVal(hexdigest(key_id), 1, 3, 5, 7)

get_shard_num_by_key_id(key_id) == WideMod(shard_val(key_id), num_shards)

get_shard_num_by_key(w) == get_shard_num_by_key_id(get_key_id_from_key(w))

(***************************************************************************)
(* CanonicalKeyTable: compute_canonical_keys and its readers.              *)
(***************************************************************************)
DefaultAmplifier == 100

\* The for loop over range(1, num_iterations), from key_id on, with the
\* dictionary filled so far; `continue` and `break` as in the source.
RECURSIVE canonical_keys_loop(_, _, _), canonical_keys_body(_, _, _, _)
canonical_keys_loop(found, key_id, num_iterations) ==
  IF key_id >= num_iterations THEN found
  ELSE canonical_keys_body(found, key_id, num_iterations,
                           get_shard_num_by_key(str_int(key_id)))

\* the loop body for key_id, whose shard number is shard_num
canonical_keys_body(found, key_id, num_iterations, shard_num) ==
  IF shard_num \in DOMAIN found
  THEN canonical_keys_loop(found, key_id + 1, num_iterations)
  ELSE IF Cardinality(DOMAIN found) + 1 = num_shards
       THEN (shard_num :> str_int(key_id)) @@ found
       ELSE canonical_keys_loop((shard_num :> str_int(key_id)) @@ found,
                                key_id + 1, num_iterations)

\* After the loop.  The raise statement names len_canonical_keys, which
\* nothing defines: building the ValueError's message raises NameError instead.
canonical_keys_outcome(found) ==
  IF Cardinality(DOMAIN found) # num_shards
  THEN Raise("NameError")
  ELSE Return(found)

compute_canonical_keys(search_amplifier) ==
  canonical_keys_outcome(
    canonical_keys_loop(<<>>, 1, (num_shards * num_shards) * search_amplifier))

get_canonical_key_id_by_shard_num(shard_num) == canonical_keys[shard_num]

get_canonical_key_id(key_id) == canonical_keys[get_shard_num_by_key_id(key_id)]

get_canonical_key(key_type, key_id) ==
  get_key(key_type, get_canonical_key_id(key_id))

(***************************************************************************)
(* Shard handles.  self._shards[n] is a connection to the Redis instance   *)
(* of shard n; the handle is identified with n, and shards[n] maps each    *)
(* key stored on that instance to its value.                               *)
(***************************************************************************)
PyShard(n) == <<"shard", n>>

get_shard_by_num_inclusive(shard_num) ==
  IF shard_num < 0 \/ shard_num > num_shards
  THEN Raise("ValueError")
  ELSE Return(PyShard(shard_num))

get_shard_by_num(shard_num) ==
  IF shard_num < 0 \/ shard_num >= num_shards
  THEN Raise("ValueError")
  ELSE Return(PyShard(shard_num))

get_shard_by_key_id(key_id) == get_shard_by_num(get_shard_num_by_key_id(key_id))

get_shard_by_key(w) == get_shard_by_key_id(get_key_id_from_key(w))

\* What a command called on a handle replies and stores: GET, SET, MSET and
\* MGET of the instance whose contents are db.
redis_get(db, k) == IF k \in DOMAIN db THEN PyStr(db[k]) ELSE PyNone

redis_mget(db, ks) == [i \in 1..Len(ks) |-> redis_get(db, ks[i])]

\* The replies to the scanning commands are left uninterpreted: the router
\* never sends one.
redis_reply(db, func_name, args) ==
  CASE func_name = "get" -> Return(redis_get(db, args[1][2]))
    [] func_name = "set" -> Return(PyTrue)
    [] func_name = "mset" -> Return(PyTrue)
    [] OTHER -> Return(<<"reply", func_name>>)

redis_store(db, func_name, args) ==
  CASE func_name = "set" -> (args[1][2] :> args[2][2]) @@ db
    [] func_name = "mset" -> args[1][2] @@ db
    [] OTHER -> db

\* What a call on the router amounts to: its outcome, the commands it
\* executed on shard handles, in order, and the contents of the shards after.
Effect(outcome, executed, contents) ==
  [outcome |-> outcome, executed |-> executed, contents |-> contents]

Fail(e) == Effect(Raise(e), <<>>, shards)

(***************************************************************************)
(* __getattr__: the function returned for func_name, applied to args.      *)
(***************************************************************************)
disallowed_sharded_operations == {"hscan", "keys", "scan", "sscan", "zscan"}

\* getattr(shard, func_name)(*args) on shard n
shard_call_next(n, func_name, args) ==
  Effect(redis_reply(shards[(n + 1) % num_shards], func_name, args),
         << <<(n + 1) % num_shards, func_name, args>> >>,
         [shards EXCEPT ![(n + 1) % num_shards] = redis_store(@, func_name, args)])

shard_call(n, func_name, args) ==
  Effect(redis_reply(shards[n], func_name, args),
         << <<n, func_name, args>> >>,
         [shards EXCEPT ![n] = redis_store(@, func_name, args)])

on_shard(handle, func_name, args) ==
  IF handle.kind = "raise" THEN Fail(handle.exc)
  ELSE shard_call(handle.val[2], func_name, args)

getattr_func_unchecked(func_name, args) ==
  IF Len(args) = 0 THEN Fail("IndexError")
  ELSE IF args[1][1] # "str" THEN Fail("TypeError")
  ELSE on_shard(get_shard_by_key(args[1][2]), func_name, args)

\* The denylist test comes first; args[0] of an empty list is an IndexError;
\* re.search on a key that is not a string is a TypeError.
getattr_func(func_name, args) ==
  IF func_name \in disallowed_sharded_operations THEN Fail("Exception")
  ELSE IF Len(args) = 0 THEN Fail("IndexError")
  ELSE IF args[1][1] # "str" THEN Fail("TypeError")
  ELSE on_shard(get_shard_by_key(args[1][2]), func_name, args)

\* func(*args) takes no keyword arguments: a call that passes any is a
\* TypeError before the body of func runs.
getattr_func_kw(func_name, args, kwargs) ==
  IF DOMAIN kwargs # {} THEN Fail("TypeError")
  ELSE getattr_func(func_name, args)

(***************************************************************************)
(* mget.                                                                   *)
(***************************************************************************)
\* key_map[shard_num].append(key), after creating the list if missing
mget_append(key_map, shard_num, key) ==
  IF shard_num \in DOMAIN key_map
  THEN [key_map EXCEPT ![shard_num] = Append(@, key)]
  ELSE (shard_num :> <<key>>) @@ key_map

\* the first loop, from args[i] on (str(key) of a string is the string)
RECURSIVE mget_key_map(_, _, _)
mget_key_map(key_map, args, i) ==
  IF i > Len(args) THEN key_map
  ELSE mget_key_map(mget_append(key_map, get_shard_num_by_key(args[i]), args[i]),
                    args, i + 1)

\* The second loop, from shard_num on.  get_shard_by_num cannot raise here,
\* shard_num being in range(0, num_shards); key_map[shard_num] is a KeyError
\* when no key of args went to shard_num.
RECURSIVE mget_results(_, _, _, _)
mget_results(results, executed, key_map, shard_num) ==
  IF shard_num >= num_shards THEN Effect(Return(PyDict(results)), executed, shards)
  ELSE IF shard_num \notin DOMAIN key_map THEN Effect(Raise("KeyError"), executed, shards)
  ELSE mget_results(
         (shard_num :> PyList(redis_mget(shards[shard_num], key_map[shard_num])))
           @@ results,
         Append(executed, <<shard_num, "mget", <<PyList(key_map[shard_num])>>>>),
         key_map, shard_num + 1)

mget(args) == mget_results(<<>>, <<>>, mget_key_map(<<>>, args, 1), 0)

(***************************************************************************)
(* Construction: __init__ loads the configuration, computes the canonical  *)
(* keys with the default amplifier and connects the shards.  A router      *)
(* exists only if compute_canonical_keys returned.                         *)
(***************************************************************************)
InitRouter(max_shards) ==
  /\ num_shards \in 1..max_shards
  /\ hash_tag \in HashTags
  /\ canonical_keys \in {r.val : r \in {q \in {compute_canonical_keys(DefaultAmplifier)} :
                                           q.kind = "return"}}
  /\ shards = [n \in 0..(num_shards - 1) |-> <<>>]
  /\ log = <<>>
  /\ last_set = <<>>

(***************************************************************************)
(* The routing functions, called on a constructed router.  They read the   *)
(* configuration and the canonical keys and change nothing, so one call is *)
(* a behaviour: the call is drawn with the configuration, and one action   *)
(* per function answers it.                                                *)
(***************************************************************************)
RouteKeys == StringsUpTo(MaxKeyLen)

KeyTypes == StringsUpTo(MaxTypeLen)

KeyIdSamples == {<<>>, <<"0">>, <<"1">>, <<"1", "0">>, <<"}">>}

Amplifiers == {0, 1, DefaultAmplifier}

Pending == [kind |-> "pending"]

RouteCalls ==
  {<<f, <<PyStr(w)>>>> :
      f \in {"_get_key_id_from_key", "get_shard_num_by_key_id", "get_shard_num_by_key"},
      w \in RouteKeys}
  \cup {<<"get_canonical_key", <<PyStr(t), PyStr(w)>>>> : t \in KeyTypes, w \in KeyIdSamples}
  \cup {<<"get_canonical_key_id_by_shard_num", <<PyInt(n)>>>> : n \in 0..(MaxShards - 1)}
  \cup {<<"compute_canonical_keys", <<PyInt(a)>>>> : a \in Amplifiers}

\* the call's n-th argument, without its type tag
Arg(n) == call[2][n][2]

Answer(outcome) ==
  /\ ret = Pending
  /\ ret' = outcome
  /\ UNCHANGED <<num_shards, hash_tag, canonical_keys, shards, call, log, last_set>>

CallGetKeyIdFromKey ==
  /\ call[1] = "_get_key_id_from_key"
  /\ Answer(Return(PyStr(get_key_id_from_key(Arg(1)))))

CallGetShardNumByKeyId ==
  /\ call[1] = "get_shard_num_by_key_id"
  /\ Answer(Return(PyInt(get_shard_num_by_key_id(Arg(1)))))

CallGetShardNumByKey ==
  /\ call[1] = "get_shard_num_by_key"
  /\ Answer(Return(PyInt(get_shard_num_by_key(Arg(1)))))

CallGetCanonicalKey ==
  /\ call[1] = "get_canonical_key"
  /\ Answer(Return(PyStr(get_canonical_key(Arg(1), Arg(2)))))

\* a shard number outside the dictionary is a KeyError
CallGetCanonicalKeyIdByShardNum ==
  /\ call[1] = "get_canonical_key_id_by_shard_num"
  /\ Answer(IF Arg(1) \in DOMAIN canonical_keys
            THEN Return(PyStr(get_canonical_key_id_by_shard_num(Arg(1))))
            ELSE Raise("KeyError"))

CallComputeCanonicalKeys ==
  /\ call[1] = "compute_canonical_keys"
  /\ Answer(compute_canonical_keys(Arg(1)))

InitRoute ==
  /\ InitRouter(MaxShards)
  /\ call \in RouteCalls
  /\ ret = Pending

NextRoute ==
  \/ CallGetKeyIdFromKey
  \/ CallGetShardNumByKeyId
  \/ CallGetShardNumByKey
  \/ CallGetCanonicalKey
  \/ CallGetCanonicalKeyIdByShardNum
  \/ CallComputeCanonicalKeys

SpecRoute == InitRoute /\ [][NextRoute]_vars

(***************************************************************************)
(* The router in use: generic calls through __getattr__, mget, and         *)
(* get_shard_by_key, on a cluster of up to MaxCluster shards.              *)
(***************************************************************************)
StoreKeys == {<<"0">>, <<"{", "0", "}">>, <<":", "{", "}">>}

Values == {<<"x">>, <<"y">>}

\* dictionaries passed to mset
Mappings ==
  {(<<"0">> :> <<"x">>), (<<"0">> :> <<"x">>) @@ (<<":", "{", "}">> :> <<"y">>)}

\* argument lists of every shape: empty, a key, a key and a value, a dictionary
ArgLists ==
  {<<>>, <<PyStr(<<"0">>), PyStr(<<"x">>)>>, <<PyDict(<<"0">> :> <<"x">>)>>}
  \cup {<<PyStr(k)>> : k \in StoreKeys}

\* get and set with the arguments Redis takes, and without a key; mset with
\* a dictionary; the denylisted commands with any arguments
InvokeCalls ==
  {<<"get", <<PyStr(k)>>>> : k \in StoreKeys}
  \cup {<<"get", <<>>>>}
  \cup {<<"set", <<PyStr(k), PyStr(v)>>>> : k \in StoreKeys, v \in Values}
  \cup {<<"mset", <<PyDict(m)>>>> : m \in Mappings}
  \cup {<<f, a>> : f \in disallowed_sharded_operations, a \in ArgLists}

\* key lists given to mget: none, one key, two keys (the same one twice too)
MgetArgs ==
  {<<>>} \cup {<<k>> : k \in StoreKeys} \cup {<<j, k>> : j \in StoreKeys, k \in StoreKeys}

\* the call c is made and amounts to r
Apply(c, r) ==
  /\ call' = c
  /\ ret' = r.outcome
  /\ log' = r.executed
  /\ shards' = r.contents
  /\ UNCHANGED <<num_shards, hash_tag, canonical_keys>>

\* tr.<func_name>(*args)
Invoke ==
  \E c \in InvokeCalls :
    /\ Apply(c, getattr_func(c[1], c[2]))
    /\ last_set' = IF c[1] = "set" THEN (c[2][1][2] :> c[2][2][2]) @@ last_set
                   ELSE last_set

\* tr.mget(args)
Mget ==
  \E a \in MgetArgs :
    /\ Apply(<<"mget", <<PyList(a)>>>>, mget(a))
    /\ UNCHANGED last_set

\* tr.get_shard_by_key(key)
CallGetShardByKey ==
  \E k \in StoreKeys :
    /\ Apply(<<"get_shard_by_key", <<PyStr(k)>>>>,
             Effect(get_shard_by_key(k), <<>>, shards))
    /\ UNCHANGED last_set

\* shard numbers given to get_shard_by_num: from -1 to past the last shard
ShardNums == (0 - 1)..MaxCluster

\* tr.get_shard_by_num(shard_num)
CallGetShardByNum ==
  \E n \in ShardNums :
    /\ Apply(<<"get_shard_by_num", <<PyInt(n)>>>>,
             Effect(get_shard_by_num(n), <<>>, shards))
    /\ UNCHANGED last_set

\* generic calls with keyword arguments: zrange(key, 0, -1, withscores=True)
KwCalls ==
  {<<"zrange", <<PyStr(k), PyInt(0), PyInt(0 - 1)>>, ("withscores" :> PyTrue)>> :
      k \in StoreKeys}

\* tr.<func_name>(*args, **kwargs)
InvokeKw ==
  \E c \in KwCalls :
    /\ Apply(c, getattr_func_kw(c[1], c[2], c[3]))
    /\ UNCHANGED last_set

Init ==
  /\ InitRouter(MaxCluster)
  /\ call = <<"__init__", <<>>>>
  /\ ret = Return(PyNone)

Next ==
  \/ Invoke
  \/ Mget
  \/ CallGetShardByKey
  \/ CallGetShardByNum
  \/ InvokeKw

Spec == Init /\ [][Next]_vars

(***************************************************************************)
(* Properties.                                                             *)
(***************************************************************************)
\* the last call was func_name and has been answered
Answered(func_name) == call[1] = func_name /\ ret # Pending

\* The identifier of a key as the specification words it: the text between
\* the first hash-tag start and the next stop after it, if both exist, else
\* the whole key.
FirstAt(w, c, from) ==
  IF \E i \in from..Len(w) : w[i] = c
  THEN CHOOSE i \in from..Len(w) : w[i] = c /\ \A j \in from..(i - 1) : w[j] # c
  ELSE 0

ExtractIdentifier(w) ==
  IF FirstAt(w, hash_start, 1) = 0 THEN w
  ELSE IF FirstAt(w, hash_stop, FirstAt(w, hash_start, 1) + 1) = 0 THEN w
  ELSE SubSeq(w, FirstAt(w, hash_start, 1) + 1,
              FirstAt(w, hash_stop, FirstAt(w, hash_start, 1) + 1) - 1)

\* the step is a generic call of a command off the denylist with a string key
GenericStep ==
  /\ call'[1] \in {"get", "set", "mset"}
  /\ Len(call'[2]) > 0
  /\ call'[2][1][1] = "str"

\* the generic call of this step executed once, on shard s, and only there
ExecutedOn(s) ==
  /\ log' = << <<s, call'[1], call'[2]>> >>
  /\ ret' = redis_reply(shards[s], call'[1], call'[2])
  /\ shards'[s] = redis_store(shards[s], call'[1], call'[2])
  /\ \A t \in DOMAIN shards : t # s => shards'[t] = shards[t]

LittleEndianMod(d, n) ==
  (((d[1] + (256 * d[2]) + (65536 * d[3])) % n) + ((d[4] % n) * (16777216 % n)))
    % n

\* C2: get_shard_num_by_key_id returns the first four digest bytes, read as
\* an unsigned little-endian 32-bit integer, modulo the shard count: an
\* integer in [0, N), never a failure.
C2_LittleEndianModN ==
  Answered("get_shard_num_by_key_id") =>
    /\ ret = Return(PyInt(LittleEndianMod(digest(Arg(1)), num_shards)))
    /\ ret.val[2] \in 0..(num_shards - 1)

\* md5("10") starts c9 f0 f8 95: 0x95f8f0c9 % 10 = 5
C2_Witness ==
  /\ num_shards = 10
  /\ call = <<"get_shard_num_by_key_id", <<PyStr(<<"1", "0">>)>>>>
  /\ ret = Return(PyInt(5))

\* C3: after router sets, get(key) on the router returns the value of the
\* most recent set of that key, the set was executed on the handle that
\* get_shard_by_key(key) returns, and that handle holds the value.
C3_SetThenGet ==
  /\ \A k \in DOMAIN last_set :
       /\ get_shard_by_key(k).kind = "return"
       /\ redis_get(shards[get_shard_by_key(k).val[2]], k) = PyStr(last_set[k])
  /\ (call[1] = "get" /\ Len(call[2]) = 1 /\ call[2][1][2] \in DOMAIN last_set)
       => ret = Return(PyStr(last_set[call[2][1][2]]))
  /\ call[1] = "set"
       => /\ Len(log) = 1
          /\ PyShard(log[1][1]) = get_shard_by_key(call[2][1][2]).val

\* "0" and "{0}" share the identifier 0 and hold different values; the first
\* is read back after the second was set
C3_Witness ==
  /\ hash_tag = <<"{", "}">>
  /\ num_shards = 2
  /\ {<<"0">>, <<"{", "0", "}">>} \subseteq DOMAIN last_set
  /\ last_set[<<"0">>] = <<"x">>
  /\ last_set[<<"{", "0", "}">>] = <<"y">>
  /\ call = <<"get", <<PyStr(<<"0">>)>>>>
  /\ ret = Return(PyStr(<<"x">>))

\* C4: the table of canonical keys has an entry for every shard index s,
\* get_shard_num_by_key_id(table[s]) = s, and
\* get_canonical_key_id_by_shard_num(s) is that entry.
C4_TableConsistent ==
  \A s \in 0..(num_shards - 1) :
    /\ s \in DOMAIN canonical_keys
    /\ get_canonical_key_id_by_shard_num(s) = canonical_keys[s]
    /\ get_shard_num_by_key_id(canonical_keys[s]) = s

Chars(w) == {w[i] : i \in 1..Len(w)}

\* the key type and the hash tag leave the tag of a built key readable: no
\* tag start in the type, the separator is not the tag start, and no decimal
\* digit is the tag stop
PlainKeyType(key_type) ==
  /\ hash_start \notin Chars(key_type)
  /\ hash_start # ":"
  /\ hash_stop \notin Chars(Digits)

\* the key get_canonical_key returned routes where the key id routes, and the
\* marker key of every shard routes to that shard
CanonicalKeyRoutes ==
  /\ get_shard_num_by_key(ret.val[2]) = get_shard_num_by_key_id(Arg(2))
  /\ \A s \in 0..(num_shards - 1) :
       get_shard_num_by_key(get_key(Arg(1), canonical_keys[s])) = s

\* C5 (amended): for a key type that contains no hash-tag start, a tag start
\* other than ":" and a tag stop that is not a decimal digit, the key of
\* get_canonical_key(key_type, key_id) routes to the shard of key_id, and the
\* marker key get_key(key_type, table[s]) routes to shard s for every s.
C5_CanonicalKeyRoutesPlain ==
  (Answered("get_canonical_key") /\ PlainKeyType(Arg(1))) => CanonicalKeyRoutes

C5_Witness ==
  /\ num_shards = 10
  /\ hash_tag = <<"{", "}">>
  /\ call = <<"get_canonical_key", <<PyStr(<<"0">>), PyStr(<<"1", "0">>)>>>>
  /\ ret = Return(PyStr(<<"0", ":", "{", "1", "0", "}">>))

\* C5 as stated: for every key type and every key id
C5_CanonicalKeyRoutesAlways ==
  Answered("get_canonical_key") => CanonicalKeyRoutes

\* the values of the keys of ks that route to shard s, in order
BucketValues(ks, s) ==
  redis_mget(shards[s], SelectSeq(ks, LAMBDA k : get_shard_num_by_key(k) = s))

\* C6: mget(keys) returns, for every shard, the values of the requested keys
\* that route to it, also when a shard has none of them.
C6_MgetCompletes ==
  call[1] = "mget" =>
    /\ ret.kind = "return"
    /\ \A s \in 0..(num_shards - 1) :
         /\ s \in DOMAIN ret.val[2]
         /\ ret.val[2][s] = PyList(BucketValues(call[2][1][2], s))

\* C7: after mset(mapping) on the router, every key of the mapping holds the
\* mapping's value on the shard it routes to.
C7_MsetWrites ==
  call[1] = "mset" =>
    /\ ret.kind = "return"
    /\ \A k \in DOMAIN call[2][1][2] :
         redis_get(shards[get_shard_num_by_key(k)], k) = PyStr(call[2][1][2][k])

\* C8: keys(pattern) on the router asks every shard and returns, per shard
\* number, the keys stored there that match (the patterns here are literal).
C8_KeysBroadcasts ==
  (call[1] = "keys" /\ Len(call[2]) = 1 /\ call[2][1][1] = "str") =>
    /\ ret.kind = "return"
    /\ \A s \in 0..(num_shards - 1) :
         /\ \E i \in 1..Len(log) : log[i] = <<s, "keys", call[2]>>
         /\ s \in DOMAIN ret.val[2]
         /\ Chars(ret.val[2][s][2]) = {PyStr(k) : k \in DOMAIN shards[s] \cap {call[2][1][2]}}

\* C9: a denylisted command called through the router, whatever its
\* arguments, ends in an error, executes nothing on any shard and leaves
\* every shard's contents as they were.
C9_DenylistedFails ==
  [][call'[1] \in disallowed_sharded_operations =>
       /\ ret'.kind = "raise"
       /\ log' = <<>>
       /\ shards' = shards]_vars

\* keys("0") was refused while "0" is stored on shard 1 of 2
C9_Witness ==
  /\ num_shards = 2
  /\ <<"0">> \in DOMAIN shards[1]
  /\ call = <<"keys", <<PyStr(<<"0">>)>>>>
  /\ ret = Raise("Exception")
  /\ log = <<>>

\* C10: when the probes run out before every shard has a canonical key, as
\* they do for search_amplifier = 0, compute_canonical_keys fails with
\* ValueError.
C10_FailsWithValueError ==
  Answered("compute_canonical_keys") =>
    /\ Arg(1) = 0 => ret.kind = "raise"
    /\ ret.kind = "raise" => ret.exc = "ValueError"

\* C11: get_shard_by_num(shard_num) raises ValueError for every shard_num
\* below 0 and every shard_num from N up, returns the handle of that index
\* for every shard_num in [0, N), and changes no shard.
C11_ShardByNumRange ==
  [][call'[1] = "get_shard_by_num" =>
       /\ (call'[2][1][2] < 0 \/ call'[2][1][2] >= num_shards)
            => ret' = Raise("ValueError")
       /\ (call'[2][1][2] >= 0 /\ call'[2][1][2] < num_shards)
            => ret' = Return(PyShard(call'[2][1][2]))
       /\ log' = <<>>
       /\ shards' = shards
       /\ num_shards' = num_shards]_vars

\* get_shard_by_num(2) was refused on a cluster of 2 whose shard 1 holds "0"
C11_Witness ==
  /\ num_shards = 2
  /\ <<"0">> \in DOMAIN shards[1]
  /\ call = <<"get_shard_by_num", <<PyInt(2)>>>>
  /\ ret = Raise("ValueError")

\* C12: a generic call with keyword arguments is routed by its key and passes
\* the positional and the keyword arguments on to the shard's command.
C12_KeywordArgsForwarded ==
  (Len(call) = 3 /\ call[1] = "zrange") =>
    /\ ret.kind = "return"
    /\ log = << <<get_shard_num_by_key(call[2][1][2]), call[1], call[2], call[3]>> >>

=============================================================================
